---------------------------- MODULE Spec2Model ----------------------------
(***************************************************************************)
(* A model of src/schema.rs: the fixture schema of the command test        *)
(* harness (TryCmd, Run, OneShot, Filesystem, Env, Bin, CommandStatus).    *)
(*                                                                         *)
(* An Option<T> is a sequence of length 0 (None) or 1 (Some(x)).           *)
(* A string the code inspects is a sequence of one-character strings.      *)
(* A map (BTreeMap) is a function whose domain is its set of keys.         *)
(***************************************************************************)
EXTENDS Integers, Sequences, FiniteSets, TLC

VARIABLES
    \* Env::update and Env::apply
    envSelf,      \* the case Env, `self` of update and apply
    envOther,     \* the default Env, `other` of update
    envOrig,      \* envSelf as it was before update (history)
    parentEnv,    \* the environment of the harness process
    command,      \* the std::process::Command's env: [clear, vars]
    envPc         \* [updated, applied]: which operations have run

envVars == <<envSelf, envOther, envOrig, parentEnv, command, envPc>>

VARIABLES
    \* TryCmd::load's filesystem resolution and Filesystem::rel_cwd
    fixturePath,  \* the fixture file: [dir, stem], dir a path
    disk,         \* [in, out]: whether <stem>.in and <stem>.out exist
    fs,           \* the Filesystem: [cwd, base, sandbox], each an Option
    fsGiven,      \* fs as the fixture gave it, before load (history)
    fsLoaded,     \* fs as load returned it (history)
    relCwd,       \* the Result of rel_cwd: [ok, val]
    fsPc          \* "parsed" -> "loaded" -> "rel"

fsVars == <<fixturePath, disk, fs, fsGiven, fsLoaded, relCwd, fsPc>>

VARIABLES
    \* TryCmd::load of a fixture file
    file,         \* [ext, raw, stdin, stdout, stderr]: the fixture's extension,
                  \* what reading it gives, and the sibling payload files
    loaded,       \* the Result of load: [ok, val]
    parsePc       \* "start" -> "done"

parseVars == <<file, loaded, parsePc>>

VARIABLES
    \* Run::to_output: the harness thread, its helper threads, the child
    run,          \* the Run: [bin, stdin, stderr_to_stdout, timeout]
    binFiles,     \* the paths that exist on disk
    chi,          \* the child's program: [out, err, reads, long]
    os,           \* which system call fails, if one does: [pipe, clone, spawn]
    pc,           \* where the thread that called to_output is
    result,       \* the Result to_output returned: [ok, val]
    made,         \* [pipes, spawns]: pipes created, spawns attempted
    cmdW,         \* write ends of the merged pipe the parent holds open
    child,        \* [st, out, err, eof, code]: the child process
    inPipe,       \* the child's stdin pipe: [buf, w], w the parent's end open
    outPipe,      \* bytes in the stdout (or merged) pipe: [o, e] by stream
    errPipe,      \* bytes in the stderr pipe of a separated capture
    writer,       \* the stdin writer thread: [st, left]
    readers,      \* the reader threads: [out, err]
    output        \* std::process::Output: [status, stdout, stderr]

runVars == <<run, binFiles, chi, os, pc, result, made, cmdW, child, inPipe,
             outPipe, errPipe, writer, readers, output>>

vars == <<envVars, fsVars, parseVars, runVars>>

None == <<>>
Some(x) == <<x>>
IsSome(o) == Len(o) = 1
Unwrap(o) == o[1]

EmptyMap == [k \in {} |-> ""]
Range(s) == {s[i] : i \in DOMAIN s}

RECURSIVE SeqsUpTo(_, _)
\* every sequence over S of length at most n
SeqsUpTo(S, n) ==
    IF n = 0 THEN {<<>>}
    ELSE LET shorter == SeqsUpTo(S, n - 1)
         IN  shorter \cup {Append(s, x) : s \in {t \in shorter : Len(t) = n - 1}, x \in S}

(***************************************************************************)
(* Env                                                                     *)
(***************************************************************************)
MaxRemove == 1

\* the path of the program under test
ProgPath == <<"/", "d", "cmd">>

EnvKeys == {"A", "B"}
EnvVals == {"1", "2"}

Maps == UNION {[D -> EnvVals] : D \in SUBSET EnvKeys}

\* struct Env { inherit: Option<bool>, add: BTreeMap, remove: Vec }
Env == [inherit : {None, Some(TRUE), Some(FALSE)},
        add : Maps,
        remove : SeqsUpTo(EnvKeys, MaxRemove)]

\* Env::default(): inherit None, add empty, remove empty
EnvDefault == [inherit |-> None, add |-> EmptyMap, remove |-> <<>>]

\* BTreeMap::extend(iter): insert every pair of iter, replacing the value of
\* a key already present
MapExtend(m, other) ==
    [k \in DOMAIN m \cup DOMAIN other |->
        IF k \in DOMAIN other THEN other[k] ELSE m[k]]

\* BTreeMap::insert(k, v)
MapInsert(m, k, v) == [x \in DOMAIN m \cup {k} |-> IF x = k THEN v ELSE m[x]]

\* BTreeMap::remove(k)
MapRemove(m, k) == [x \in DOMAIN m \ {k} |-> m[x]]

\* Env::update(&mut self, other)
Update(self, other) ==
    [inherit |-> IF self.inherit = None THEN other.inherit ELSE self.inherit,
     add     |-> MapExtend(self.add, other.add),
     remove  |-> self.remove \o other.remove]

\* Env::inherit(): self.inherit.unwrap_or(true)
Inherit(self) == IF IsSome(self.inherit) THEN Unwrap(self.inherit) ELSE TRUE

\* Command::new(program): no argument, no directory, nothing cleared, no
\* variable set or removed
CommandNew(program) ==
    [program |-> program, args |-> <<>>, cwd |-> None,
     clear |-> FALSE, vars |-> EmptyMap]

\* Command::env_clear: forget the changes so far, do not inherit
CmdEnvClear(cmd) == [cmd EXCEPT !.clear = TRUE, !.vars = EmptyMap]

\* Command::env_remove(k): with clear set the key is dropped from the changes,
\* else the change "remove k" (None) is recorded
CmdEnvRemove(cmd, k) ==
    IF cmd.clear THEN [cmd EXCEPT !.vars = MapRemove(cmd.vars, k)]
    ELSE [cmd EXCEPT !.vars = MapInsert(cmd.vars, k, None)]

\* Command::envs(map): record the change "set k to v" for every pair
CmdEnvs(cmd, add) ==
    [cmd EXCEPT !.vars =
        [k \in DOMAIN cmd.vars \cup DOMAIN add |->
            IF k \in DOMAIN add THEN Some(add[k]) ELSE cmd.vars[k]]]

RECURSIVE CmdEnvRemoveAll(_, _)
\* for remove in &self.remove { command.env_remove(&remove) }
CmdEnvRemoveAll(cmd, remove) ==
    IF remove = <<>> THEN cmd
    ELSE CmdEnvRemoveAll(CmdEnvRemove(cmd, Head(remove)), Tail(remove))

\* Env::apply with command.envs(&self.add) moved before the removals
ApplyAddFirst(self, cmd) ==
    LET cleared == IF ~Inherit(self) THEN CmdEnvClear(cmd) ELSE cmd
    IN  CmdEnvRemoveAll(CmdEnvs(cleared, self.add), self.remove)

\* Env::apply(&self, command)
Apply(self, cmd) ==
    LET cleared == IF ~Inherit(self) THEN CmdEnvClear(cmd) ELSE cmd
        removed == CmdEnvRemoveAll(cleared, self.remove)
    IN  CmdEnvs(removed, self.add)

\* the environment the spawned child gets: the parent's unless cleared, with
\* the recorded changes made
ChildEnv(cmd, parent) ==
    LET base == IF cmd.clear THEN EmptyMap ELSE parent
        gone == {k \in DOMAIN cmd.vars : cmd.vars[k] = None}
        set  == DOMAIN cmd.vars \ gone
    IN  [k \in (DOMAIN base \ gone) \cup set |->
            IF k \in set THEN Unwrap(cmd.vars[k]) ELSE base[k]]

ParentEnvs == {EmptyMap, [k \in {"A"} |-> "2"], [k \in {"A", "B"} |-> "1"]}

(***************************************************************************)
(* Filesystem.  A path is the sequence of its components (Path::components) *)
(* with the root directory, when it has one, as the first component "/".   *)
(***************************************************************************)
MaxDepth == 2

PathNames == {"d", "case.in", "sub"}
RootDir == "/"

RelPaths == SeqsUpTo(PathNames, MaxDepth)
Paths == RelPaths \cup {<<RootDir>> \o p : p \in RelPaths}

\* Path::is_absolute (has_root on Unix)
IsAbsolute(p) == p # <<>> /\ p[1] = RootDir

\* Path::join(other): an absolute `other` replaces self
Join(p, other) == IF IsAbsolute(other) THEN other ELSE p \o other

\* path.with_extension(ext) for the fixture <dir>/<stem>.<toml|trycmd>
WithExtension(path, ext) ==
    path.dir \o <<IF ext = "in" THEN "case.in" ELSE "case.out">>

\* path.parent().unwrap_or_else(|| Path::new(".")): the fixture has a file
\* name, so parent() is Some(dir), the empty path for a bare file name
Parent(path) == path.dir

\* Path::exists for the two sibling paths load asks about
Exists(dsk, ext) == IF ext = "in" THEN dsk.in ELSE dsk.out

\* load defaulting base to the cwd as the fixture wrote it, not yet joined
LoadFsBaseUnjoined(f, path, dsk) ==
    LET cwd1  == IF IsSome(f.cwd)
                 THEN Some(Join(Parent(path), Unwrap(f.cwd))) ELSE None
        base1 == IF f.base = None
                 THEN IF Exists(dsk, "in") THEN Some(WithExtension(path, "in"))
                      ELSE f.cwd
                 ELSE f.base
        cwd2  == IF cwd1 = None THEN base1 ELSE cwd1
        sand  == IF f.sandbox = None THEN Some(Exists(dsk, "out"))
                 ELSE f.sandbox
    IN  [cwd |-> cwd2, base |-> base1, sandbox |-> sand]

\* load preferring an explicit cwd over the sibling .in as the base
LoadFsCwdOverIn(f, path, dsk) ==
    LET cwd1  == IF IsSome(f.cwd)
                 THEN Some(Join(Parent(path), Unwrap(f.cwd))) ELSE None
        base1 == IF f.base = None
                 THEN IF IsSome(cwd1) THEN cwd1
                      ELSE IF Exists(dsk, "in")
                           THEN Some(WithExtension(path, "in"))
                      ELSE None
                 ELSE f.base
        cwd2  == IF cwd1 = None THEN base1 ELSE cwd1
        sand  == IF f.sandbox = None THEN Some(Exists(dsk, "out"))
                 ELSE f.sandbox
    IN  [cwd |-> cwd2, base |-> base1, sandbox |-> sand]

\* TryCmd::load, lines 58-78: the resolution of sequence.fs
LoadFs(f, path, dsk) ==
    LET cwd1  == IF IsSome(f.cwd)
                 THEN Some(Join(Parent(path), Unwrap(f.cwd))) ELSE None
        base1 == IF f.base = None
                 THEN IF Exists(dsk, "in") THEN Some(WithExtension(path, "in"))
                      ELSE IF IsSome(cwd1) THEN cwd1
                      ELSE None
                 ELSE f.base
        cwd2  == IF cwd1 = None THEN base1 ELSE cwd1
        sand  == IF f.sandbox = None THEN Some(Exists(dsk, "out"))
                 ELSE f.sandbox
    IN  [cwd |-> cwd2, base |-> base1, sandbox |-> sand]

Ok(v) == [ok |-> TRUE, val |-> v]
Err(e) == [ok |-> FALSE, val |-> e]

RECURSIVE IterAfter(_, _)
\* std::path iter_after: walk both component iterators while they agree;
\* Some(rest of p) when the prefix is used up, None at a mismatch
IterAfter(p, prefix) ==
    IF prefix = <<>> THEN Some(p)
    ELSE IF p = <<>> THEN None
    ELSE IF Head(p) = Head(prefix) THEN IterAfter(Tail(p), Tail(prefix))
    ELSE None

\* Path::strip_prefix(base)
StripPrefix(p, base) ==
    LET r == IterAfter(p, base)
    IN  IF IsSome(r) THEN Ok(Unwrap(r)) ELSE Err("StripPrefixError")

\* format!("fs.cwd ({}) must be within fs.base ({})", cwd, base)
RelCwdMessage(cwd, base) ==
    [text |-> "fs.cwd ({}) must be within fs.base ({})",
     cwd |-> cwd, base |-> base]

\* rel_cwd with the strip_prefix error swallowed into the empty path
RelCwdLenient(f) ==
    IF IsSome(f.cwd) /\ IsSome(f.base)
    THEN LET r == StripPrefix(Unwrap(f.cwd), Unwrap(f.base))
         IN  IF r.ok THEN Ok(r.val) ELSE Ok(<<>>)
    ELSE Ok(<<>>)

\* Filesystem::rel_cwd(&self)
RelCwd(f) ==
    IF IsSome(f.cwd) /\ IsSome(f.base)
    THEN LET r == StripPrefix(Unwrap(f.cwd), Unwrap(f.base))
         IN  IF r.ok THEN Ok(r.val)
             ELSE Err(RelCwdMessage(Unwrap(f.cwd), Unwrap(f.base)))
    ELSE Ok(<<>>)

OptionOf(S) == {None} \cup {Some(x) : x \in S}

FixturePaths == {[dir |-> <<>>, stem |-> "case"],
                 [dir |-> <<RootDir, "d">>, stem |-> "case"]}

(***************************************************************************)
(* Text.  A string the code inspects is a sequence of one-character        *)
(* strings.                                                                *)
(***************************************************************************)
SP == " "
NL == "\n"
TAB == "\t"
CR == "\r"
SQUOTE == "'"
DQUOTE == "\""
BACKSLASH == "\\"

\* char::is_whitespace, on the characters of the model
IsWhitespace(c) == c \in {SP, NL, TAB, CR}

RECURSIVE Find(_, _, _)
\* str::find(c) from index i on: the index of the first c, 0 when there is none
Find(s, c, i) ==
    IF i > Len(s) THEN 0
    ELSE IF s[i] = c THEN i
    ELSE Find(s, c, i + 1)

RECURSIVE LinesWithTerminator(_)
\* crate::lines::LinesWithTerminator: the lines of s, each with its "\n" kept
LinesWithTerminator(s) ==
    IF s = <<>> THEN <<>>
    ELSE LET end == Find(s, NL, 1)
         IN  IF end = 0 THEN <<s>>
             ELSE <<SubSeq(s, 1, end)>>
                      \o LinesWithTerminator(SubSeq(s, end + 1, Len(s)))

\* str::strip_prefix(prefix): Some(rest) when s starts with prefix
StrStripPrefix(s, prefix) ==
    IF Len(s) >= Len(prefix) /\ SubSeq(s, 1, Len(prefix)) = prefix
    THEN Some(SubSeq(s, Len(prefix) + 1, Len(s)))
    ELSE None

RECURSIVE TrimStart(_)
TrimStart(s) ==
    IF s # <<>> /\ IsWhitespace(Head(s)) THEN TrimStart(Tail(s)) ELSE s

RECURSIVE TrimEnd(_)
TrimEnd(s) ==
    IF s # <<>> /\ IsWhitespace(s[Len(s)])
    THEN TrimEnd(SubSeq(s, 1, Len(s) - 1)) ELSE s

\* str::trim
Trim(s) == TrimEnd(TrimStart(s))

\* str::split_once('='): Some((before, after)) at the first '='
SplitOnce(s) ==
    LET i == Find(s, "=", 1)
    IN  IF i = 0 THEN None
        ELSE Some(<<SubSeq(s, 1, i - 1), SubSeq(s, i + 1, Len(s))>>)

(***************************************************************************)
(* shlex::Shlex: POSIX shell word splitting.  A parse step is              *)
(* [ok, word, next]: the word so far and the index of the next character.  *)
(***************************************************************************)
RECURSIVE ShlexParseSingle(_, _, _)
\* Shlex::parse_single: up to the closing quote, everything is literal
ShlexParseSingle(s, i, word) ==
    IF i > Len(s) THEN [ok |-> FALSE, word |-> word, next |-> i]
    ELSE IF s[i] = SQUOTE THEN [ok |-> TRUE, word |-> word, next |-> i + 1]
    ELSE ShlexParseSingle(s, i + 1, Append(word, s[i]))

RECURSIVE ShlexParseDouble(_, _, _)
\* Shlex::parse_double: a backslash escapes $ " \ (and the backquote, a
\* character no string of this module can hold) and joins lines
ShlexParseDouble(s, i, word) ==
    IF i > Len(s) THEN [ok |-> FALSE, word |-> word, next |-> i]
    ELSE IF s[i] = DQUOTE THEN [ok |-> TRUE, word |-> word, next |-> i + 1]
    ELSE IF s[i] = BACKSLASH
         THEN IF i + 1 > Len(s) THEN [ok |-> FALSE, word |-> word, next |-> i + 1]
              ELSE IF s[i + 1] \in {"$", DQUOTE, BACKSLASH}
                   THEN ShlexParseDouble(s, i + 2, Append(word, s[i + 1]))
              ELSE IF s[i + 1] = NL THEN ShlexParseDouble(s, i + 2, word)
              ELSE ShlexParseDouble(s, i + 2, word \o <<BACKSLASH, s[i + 1]>>)
    ELSE ShlexParseDouble(s, i + 1, Append(word, s[i]))

RECURSIVE ShlexParseWord(_, _, _)
\* Shlex::parse_word, the character at i being the current one
ShlexParseWord(s, i, word) ==
    IF i > Len(s) THEN [ok |-> TRUE, word |-> word, next |-> i]
    ELSE IF s[i] = DQUOTE
         THEN LET q == ShlexParseDouble(s, i + 1, word)
              IN  IF q.ok THEN ShlexParseWord(s, q.next, q.word) ELSE q
    ELSE IF s[i] = SQUOTE
         THEN LET q == ShlexParseSingle(s, i + 1, word)
              IN  IF q.ok THEN ShlexParseWord(s, q.next, q.word) ELSE q
    ELSE IF s[i] = BACKSLASH
         THEN IF i + 1 > Len(s) THEN [ok |-> FALSE, word |-> word, next |-> i + 1]
              ELSE IF s[i + 1] = NL THEN ShlexParseWord(s, i + 2, word)
              ELSE ShlexParseWord(s, i + 2, Append(word, s[i + 1]))
    ELSE IF s[i] \in {SP, TAB, NL} THEN [ok |-> TRUE, word |-> word, next |-> i + 1]
    ELSE ShlexParseWord(s, i + 1, Append(word, s[i]))

RECURSIVE ShlexSkipComment(_, _)
\* the index after the "\n" that ends a # comment
ShlexSkipComment(s, i) ==
    IF i > Len(s) THEN i
    ELSE IF s[i] = NL THEN i + 1
    ELSE ShlexSkipComment(s, i + 1)

RECURSIVE ShlexWordStart(_, _)
\* Shlex::next, skipping whitespace and comments: the index of the first
\* character of the next word, 0 when the input ends first
ShlexWordStart(s, i) ==
    IF i > Len(s) THEN 0
    ELSE IF s[i] \in {SP, TAB, NL} THEN ShlexWordStart(s, i + 1)
    ELSE IF s[i] = "#" THEN ShlexWordStart(s, ShlexSkipComment(s, i + 1))
    ELSE i

RECURSIVE ShlexFrom(_, _)
\* the words the iterator yields from index i on; it ends at the end of
\* the input and at a quoting error
ShlexFrom(s, i) ==
    LET start == ShlexWordStart(s, i)
    IN  IF start = 0 THEN <<>>
        ELSE LET w == ShlexParseWord(s, start, <<>>)
             IN  IF w.ok THEN <<w.word>> \o ShlexFrom(s, w.next) ELSE <<>>

\* shlex::Shlex::new(s).collect()
Shlex(s) == ShlexFrom(s, 1)

(***************************************************************************)
(* CommandStatus                                                           *)
(***************************************************************************)
I32Max == 2147483647
I32Min == (-2147483647) - 1

Success == <<"Success">>
Failed == <<"Failed">>
Interrupted == <<"Interrupted">>
Skipped == <<"Skipped">>
Code(n) == <<"Code", n>>

\* impl Default for CommandStatus
CommandStatusDefault == Success

Digits == <<"0", "1", "2", "3", "4", "5", "6", "7", "8", "9">>
IsDigit(c) == \E d \in DOMAIN Digits : Digits[d] = c
DigitValue(c) == (CHOOSE d \in DOMAIN Digits : Digits[d] = c) - 1

RECURSIVE I32Digits(_, _, _)
\* i32::from_str_radix, the digit loop: checked_mul(10) then checked_add(d)
\* (checked_sub(d) for a negative number); None on a non-digit or overflow
I32Digits(s, acc, positive) ==
    IF s = <<>> THEN Some(acc)
    ELSE IF ~IsDigit(Head(s)) THEN None
    ELSE LET d == DigitValue(Head(s))
         IN  IF positive
             THEN IF acc > (I32Max - d) \div 10 THEN None
                  ELSE I32Digits(Tail(s), acc * 10 + d, positive)
             ELSE IF acc < (I32Min + d + 9) \div 10 THEN None
                  ELSE I32Digits(Tail(s), acc * 10 - d, positive)

\* str::parse::<i32>(): an optional sign and at least one digit
ParseI32(s) ==
    IF s = <<>> THEN None
    ELSE IF s = <<"+">> \/ s = <<"-">> THEN None
    ELSE IF Head(s) = "+" THEN I32Digits(Tail(s), 0, TRUE)
    ELSE IF Head(s) = "-" THEN I32Digits(Tail(s), 0, FALSE)
    ELSE I32Digits(s, 0, TRUE)

\* <CommandStatus as FromStr>::from_str with an unknown word read as Success
FromStrLenient(s) ==
    IF s = <<"s", "u", "c", "c", "e", "s", "s">> THEN Ok(Success)
    ELSE IF s = <<"f", "a", "i", "l", "e", "d">> THEN Ok(Failed)
    ELSE IF s = <<"i", "n", "t", "e", "r", "r", "u", "p", "t", "e", "d">>
         THEN Ok(Interrupted)
    ELSE IF s = <<"s", "k", "i", "p", "p", "e", "d">> THEN Ok(Skipped)
    ELSE LET n == ParseI32(s)
         IN  IF IsSome(n) THEN Ok(Code(Unwrap(n))) ELSE Ok(Success)

\* <CommandStatus as FromStr>::from_str
FromStr(s) ==
    IF s = <<"s", "u", "c", "c", "e", "s", "s">> THEN Ok(Success)
    ELSE IF s = <<"f", "a", "i", "l", "e", "d">> THEN Ok(Failed)
    ELSE IF s = <<"i", "n", "t", "e", "r", "r", "u", "p", "t", "e", "d">>
         THEN Ok(Interrupted)
    ELSE IF s = <<"s", "k", "i", "p", "p", "e", "d">> THEN Ok(Skipped)
    ELSE LET n == ParseI32(s)
         IN  IF IsSome(n) THEN Ok(Code(Unwrap(n)))
             ELSE Err(<<"Expected an exit code, got {}", s>>)

(***************************************************************************)
(* Run, OneShot, TryCmd                                                    *)
(***************************************************************************)
\* Bin::Path(path), Bin::Name(name), Bin::Error(err)
BinPath(p) == <<"Path", p>>
BinName(n) == <<"Name", n>>
BinError(e) == <<"Error", e>>

\* Filesystem::default()
FilesystemDefault == [cwd |-> None, base |-> None, sandbox |-> None]

\* Run::default()
RunDefault ==
    [bin |-> None, args |-> <<>>, env |-> EnvDefault, stdin |-> None,
     stderr_to_stdout |-> FALSE, status |-> None, expected_stdout |-> None,
     expected_stderr |-> None, binary |-> FALSE, timeout |-> None]

\* Run::status(): self.status.unwrap_or_default()
Status(r) ==
    IF IsSome(r.status) THEN Unwrap(r.status) ELSE CommandStatusDefault

\* Args::Split(vec), Args::Joined(JoinedArgs)
ArgsSplit(v) == <<"Split", v>>
ArgsJoined(v) == <<"Joined", v>>

\* <JoinedArgs as FromStr>::from_str, used by its Deserialize
JoinedArgsFromStr(str) == ArgsJoined(Shlex(str))

\* Args::into_vec
IntoVec(args) == args[2]

\* OneShot::parse_toml on a document given as its keys, each present
\* (Some) or absent (None): serde fills an absent key that is marked
\* #[serde(default)] with the type's default, an absent Option with None
ParseToml(doc) ==
    [bin |-> doc.bin,
     args |-> IF doc.args = None THEN ArgsSplit(<<>>)
              ELSE IF Unwrap(doc.args)[1] = "Joined"
                   THEN JoinedArgsFromStr(Unwrap(doc.args)[2])
              ELSE Unwrap(doc.args),
     env |-> EnvDefault,
     stderr_to_stdout |-> IF doc.stderr_to_stdout = None THEN FALSE
                          ELSE Unwrap(doc.stderr_to_stdout),
     status |-> doc.status,
     binary |-> FALSE,
     timeout |-> None,
     fs |-> FilesystemDefault]

\* From<OneShot> for TryCmd with the merge flag forced on, as the compact
\* syntax has it
FromOneShotMerged(other) ==
    [run |-> [bin |-> other.bin, args |-> IntoVec(other.args),
              env |-> other.env, stdin |-> None,
              stderr_to_stdout |-> TRUE,
              status |-> other.status, expected_stdout |-> None,
              expected_stderr |-> None, binary |-> other.binary,
              timeout |-> other.timeout],
     fs |-> other.fs]

\* From<OneShot> for TryCmd
FromOneShot(other) ==
    [run |-> [bin |-> other.bin, args |-> IntoVec(other.args),
              env |-> other.env, stdin |-> None,
              stderr_to_stdout |-> other.stderr_to_stdout,
              status |-> other.status, expected_stdout |-> None,
              expected_stderr |-> None, binary |-> other.binary,
              timeout |-> other.timeout],
     fs |-> other.fs]

RECURSIVE Concat(_)
\* String::extend(lines): the lines one after the other
Concat(lines) == IF lines = <<>> THEN <<>> ELSE Head(lines) \o Concat(Tail(lines))

DOLLAR == <<"$", SP>>
CONT == <<">", SP>>
QUERY == <<"?", SP>>

\* the "> " lines taken from anywhere in the rest of the text
ContinuationLinesAnywhere(cmdline, lines) ==
    LET conts == SelectSeq(lines, LAMBDA l : IsSome(StrStripPrefix(l, CONT)))
        Tok[i \in 0..Len(conts)] ==
            IF i = 0 THEN cmdline
            ELSE Tok[i - 1]
                     \o Shlex(Trim(Unwrap(StrStripPrefix(conts[i], CONT))))
    IN  [cmdline |-> Tok[Len(conts)],
         lines |-> SelectSeq(lines, LAMBDA l : StrStripPrefix(l, CONT) = None)]

RECURSIVE ContinuationLines(_, _)
\* parse_trycmd, lines 96-103: the run of "> " lines extends cmdline
ContinuationLines(cmdline, lines) ==
    IF lines = <<>> THEN [cmdline |-> cmdline, lines |-> lines]
    ELSE LET raw == StrStripPrefix(Head(lines), CONT)
         IN  IF IsSome(raw)
             THEN ContinuationLines(cmdline \o Shlex(Trim(Unwrap(raw))), Tail(lines))
             ELSE [cmdline |-> cmdline, lines |-> lines]

\* parse_trycmd, lines 84-103: the "$ " line and the "> " lines.
\* Ok([cmdline, lines]) with the lines not yet consumed, or the Err
CommandLines(str) ==
    LET lines == LinesWithTerminator(str)
    IN  IF lines = <<>> THEN Ok([cmdline |-> <<>>, lines |-> <<>>])
        ELSE LET raw == StrStripPrefix(Head(lines), DOLLAR)
             IN  IF IsSome(raw)
                 THEN Ok(ContinuationLines(Shlex(Trim(Unwrap(raw))), Tail(lines)))
                 ELSE Err(<<"Expected $ line, got {}", Head(lines)>>)

\* parse_trycmd, lines 85 and 104-110: the optional "? " line.
\* Ok([status, lines]) or the Err of the status word
StatusLine(lines) ==
    IF lines = <<>> THEN Ok([status |-> Some(Success), lines |-> lines])
    ELSE LET raw == StrStripPrefix(Head(lines), QUERY)
         IN  IF IsSome(raw)
             THEN LET st == FromStr(Trim(Unwrap(raw)))
                  IN  IF st.ok THEN Ok([status |-> Some(st.val), lines |-> Tail(lines)])
                      ELSE st
             ELSE Ok([status |-> Some(Success), lines |-> lines])

\* the loop of lines 117-127 with NAME=VALUE words picked out of the whole
\* command line, not only from its front
BinLoopGreedy(cmdline, env) ==
    LET rest == SelectSeq(cmdline, LAMBDA w : SplitOnce(w) = None)
        adds == SelectSeq(cmdline, LAMBDA w : SplitOnce(w) # None)
        Ins[i \in 0..Len(adds)] ==
            IF i = 0 THEN env.add
            ELSE LET kv == Unwrap(SplitOnce(adds[i]))
                 IN  MapInsert(Ins[i - 1], kv[1], kv[2])
    IN  IF rest = <<>> THEN Err(<<"No bin specified">>)
        ELSE Ok([bin |-> Head(rest), args |-> Tail(rest),
                 env |-> [env EXCEPT !.add = Ins[Len(adds)]]])

RECURSIVE BinLoop(_, _)
\* parse_trycmd, lines 117-127: leading NAME=VALUE words go to env.add, the
\* first other word is the bin, what is left of cmdline the args
BinLoop(cmdline, env) ==
    IF cmdline = <<>> THEN Err(<<"No bin specified">>)
    ELSE LET next == Head(cmdline)
             kv   == SplitOnce(next)
         IN  IF IsSome(kv)
             THEN BinLoop(Tail(cmdline),
                          [env EXCEPT !.add = MapInsert(@, Unwrap(kv)[1], Unwrap(kv)[2])])
             ELSE Ok([bin |-> next, args |-> Tail(cmdline), env |-> env])

\* TryCmd::parse_trycmd
ParseTrycmd(str) ==
    LET cmd == CommandLines(str)
    IN  IF ~cmd.ok THEN cmd
        ELSE LET st == StatusLine(cmd.val.lines)
             IN  IF ~st.ok THEN st
                 ELSE LET stdout == Concat(st.val.lines)
                          b == BinLoop(cmd.val.cmdline, EnvDefault)
                      IN  IF ~b.ok THEN b
                          ELSE Ok([run |-> [RunDefault EXCEPT
                                       !.bin = Some(BinName(b.val.bin)),
                                       !.args = b.val.args,
                                       !.env = b.val.env,
                                       !.status = st.val.status,
                                       !.stderr_to_stdout = TRUE,
                                       !.expected_stdout = Some(stdout)],
                                   fs |-> FilesystemDefault])

\* TryCmd::load, lines 17-56: the fixture is read and parsed by its
\* extension; fixture is [ext, raw, stdin, stdout, stderr], ext an Option, raw
\* what read_to_string gives, the others the sibling payload files
LoadParse(fixture) ==
    IF fixture.ext = None THEN Err(<<"No extension">>)
    ELSE IF Unwrap(fixture.ext) = "toml"
         THEN IF ~fixture.raw.ok THEN fixture.raw
              ELSE LET sequence == FromOneShot(ParseToml(fixture.raw.val))
                   IN  Ok([sequence EXCEPT
                              !.run.stdin = fixture.stdin,
                              !.run.expected_stdout = fixture.stdout,
                              !.run.expected_stderr = fixture.stderr])
    ELSE IF Unwrap(fixture.ext) = "trycmd"
         THEN IF ~fixture.raw.ok THEN fixture.raw
              ELSE ParseTrycmd(fixture.raw.val)
    ELSE Err(<<"Unsupported extension: {}", Unwrap(fixture.ext)>>)

\* TryCmd::load
Load(fixture, path, dsk) ==
    LET parsed == LoadParse(fixture)
    IN  IF ~parsed.ok THEN parsed
        ELSE Ok([parsed.val EXCEPT !.fs = LoadFs(parsed.val.fs, path, dsk)])

(***************************************************************************)
(* Run::to_command and Run::to_output                                      *)
(***************************************************************************)
PipeCap == 1
MaxIn == 2
MaxOut == 2
MaxErr == 1

\* Run::to_command without the bin.exists() check
ToCommandNoExists(r, cwd, files) ==
    IF r.bin = None THEN Err(<<"No bin specified">>)
    ELSE IF Unwrap(r.bin)[1] = "Name"
         THEN Err(<<"Unknown bin.name = {}", Unwrap(r.bin)[2]>>)
    ELSE IF Unwrap(r.bin)[1] = "Error" THEN Err(Unwrap(r.bin)[2])
    ELSE Ok(Apply(r.env, [CommandNew(Unwrap(r.bin)[2]) EXCEPT
                              !.args = r.args, !.cwd = cwd]))

\* Run::to_command(&self, cwd)
ToCommand(r, cwd, files) ==
    IF r.bin = None THEN Err(<<"No bin specified">>)
    ELSE IF Unwrap(r.bin)[1] = "Name"
         THEN Err(<<"Unknown bin.name = {}", Unwrap(r.bin)[2]>>)
    ELSE IF Unwrap(r.bin)[1] = "Error" THEN Err(Unwrap(r.bin)[2])
    ELSE IF Unwrap(r.bin)[2] \notin files
         THEN Err(<<"Bin doesn't exist: {}", Unwrap(r.bin)[2]>>)
    ELSE Ok(Apply(r.env, [CommandNew(Unwrap(r.bin)[2]) EXCEPT
                              !.args = r.args, !.cwd = cwd]))

\* Run::stdin(): the payload's bytes, here their number
Stdin(r) == r.stdin

\* to_output handing no timeout to wait_with_input_output
WaitTimeoutNone(r) == None

\* the timeout to_output hands to wait_with_input_output: self.timeout
WaitTimeout(r) == r.timeout

\* the exit classification: zero, non-zero, killed
Classify(status) ==
    IF status = <<"signal">> THEN Interrupted
    ELSE IF status = <<"exit", 0>> THEN Success
    ELSE Failed

NoOutput == [status |-> <<"none">>, stdout |-> [o |-> 0, e |-> 0], stderr |-> 0]

Merged == run.stderr_to_stdout
Alive == child.st = "running"

(***************************************************************************)
(* The fixtures load is given.                                             *)
(***************************************************************************)
MaxWords == 2
MaxRest == 2

WordCmd == <<"c", "m", "d">>
WordA1 == <<"A", "=", "1">>
WordA2 == <<"A", "=", "2">>
WordQuoted == <<"B", "=", SQUOTE, "x", SP, "y", SQUOTE>>
WordXY == <<"x", "=", "y">>

\* the shell words a "$ " line is made of
Words == {WordCmd, WordA1, WordA2, WordQuoted}

RECURSIVE JoinWith(_, _)
\* the items with sep between them
JoinWith(items, sep) ==
    IF items = <<>> THEN <<>>
    ELSE IF Len(items) = 1 THEN items[1]
    ELSE items[1] \o sep \o JoinWith(Tail(items), sep)

\* a first line: "$ " and up to MaxWords words, or a line without the "$ "
FirstLines ==
    {DOLLAR \o JoinWith(ws, <<SP>>) : ws \in SeqsUpTo(Words, MaxWords)}
        \cup {WordCmd}

StatusWords ==
    {<<"s", "u", "c", "c", "e", "s", "s">>,
     <<"f", "a", "i", "l", "e", "d">>,
     <<"i", "n", "t", "e", "r", "r", "u", "p", "t", "e", "d">>,
     <<"s", "k", "i", "p", "p", "e", "d">>,
     <<"-", "1">>,
     <<"2", "1", "4", "7", "4", "8", "3", "6", "4", "8">>,
     <<"b", "o", "g", "u", "s">>}

\* a later line: a continuation, a status line, or a line of output
RestLines ==
    {CONT \o WordCmd, CONT \o WordXY}
        \cup {QUERY \o w : w \in StatusWords}
        \cup {<<"o", "u", "t">>}

\* the text of a .trycmd fixture: its lines with "\n" between them
Texts ==
    {<<>>} \cup
    {JoinWith(<<first>> \o rest, <<NL>>) :
        first \in FirstLines, rest \in SeqsUpTo(RestLines, MaxRest)}

\* the keys of a .toml fixture; bin, args, stderr-to-stdout, status vary
TomlDocs ==
    [bin : {None, Some(BinName(WordCmd)), Some(BinPath(<<RootDir, "d">>))},
     args : {None, Some(ArgsSplit(<<WordXY>>)),
             Some(ArgsJoined(WordA1 \o <<SP>> \o WordQuoted))},
     stderr_to_stdout : OptionOf(BOOLEAN),
     status : OptionOf({Success, Failed, Code(1)})]

Payload == <<"o", "u", "t">>

Files ==
    [ext : {Some("toml")}, raw : {Ok(d) : d \in TomlDocs},
     stdin : OptionOf({Payload}), stdout : OptionOf({Payload}),
     stderr : {None}]
    \cup
    [ext : {Some("trycmd")}, raw : {Ok(t) : t \in Texts},
     stdin : {None}, stdout : {None}, stderr : {None}]
    \cup
    [ext : {None, Some("txt"), Some("toml"), Some("trycmd")},
     raw : {Err(<<"No such file or directory">>)},
     stdin : {None}, stdout : {None}, stderr : {None}]


(***************************************************************************)
(* The state each state machine leaves alone.                              *)
(***************************************************************************)
EnvIdle ==
    /\ envSelf = EnvDefault /\ envOther = EnvDefault /\ envOrig = EnvDefault
    /\ parentEnv = EmptyMap /\ command = CommandNew(ProgPath)
    /\ envPc = [updated |-> FALSE, applied |-> FALSE]

FsIdle ==
    /\ fixturePath = [dir |-> <<>>, stem |-> "case"]
    /\ disk = [in |-> FALSE, out |-> FALSE]
    /\ fs = [cwd |-> None, base |-> None, sandbox |-> None]
    /\ fsGiven = fs
    /\ fsLoaded = fs
    /\ relCwd = Ok(<<>>)
    /\ fsPc = "parsed"

ParseIdle ==
    /\ file = [ext |-> None, raw |-> Err(<<"No such file or directory">>),
               stdin |-> None, stdout |-> None, stderr |-> None]
    /\ loaded = Err(<<"not loaded">>)
    /\ parsePc = "start"

\* nothing run yet: no pipe, no child, no thread, nothing captured
RunStart ==
    /\ pc = "start"
    /\ result = Err(<<"not run">>)
    /\ made = [pipes |-> 0, spawns |-> 0]
    /\ cmdW = 0
    /\ child = [st |-> "none", out |-> 0, err |-> 0, eof |-> FALSE, code |-> 0]
    /\ inPipe = [buf |-> 0, w |-> FALSE]
    /\ outPipe = [o |-> 0, e |-> 0]
    /\ errPipe = 0
    /\ writer = [st |-> "none", left |-> 0]
    /\ readers = [out |-> "none", err |-> "none"]
    /\ output = NoOutput

RunIdle ==
    /\ run = RunDefault
    /\ binFiles = {}
    /\ chi = [out |-> 0, err |-> 0, reads |-> FALSE, long |-> FALSE]
    /\ os = [pipe |-> TRUE, clone |-> TRUE, spawn |-> TRUE]
    /\ RunStart


(***************************************************************************)
(* The state machines.                                                     *)
(***************************************************************************)
InitEnv ==
    /\ envSelf \in Env
    /\ envOther \in Env
    /\ envOrig = envSelf
    /\ parentEnv \in ParentEnvs
    /\ command = CommandNew(ProgPath)
    /\ envPc = [updated |-> FALSE, applied |-> FALSE]
    /\ FsIdle /\ ParseIdle /\ RunIdle

\* self.update(&default): layer the default Env under the case Env
EnvUpdate ==
    /\ ~envPc.updated
    /\ ~envPc.applied
    /\ envSelf' = Update(envSelf, envOther)
    /\ envPc' = [envPc EXCEPT !.updated = TRUE]
    /\ UNCHANGED <<envOther, envOrig, parentEnv, command>>
    /\ UNCHANGED <<fsVars, parseVars, runVars>>

\* self.env.apply(&mut cmd) on a fresh Command
EnvApply ==
    /\ ~envPc.applied
    /\ command' = Apply(envSelf, command)
    /\ envPc' = [envPc EXCEPT !.applied = TRUE]
    /\ UNCHANGED <<envSelf, envOther, envOrig, parentEnv>>
    /\ UNCHANGED <<fsVars, parseVars, runVars>>

NextEnv == EnvUpdate \/ EnvApply

SpecEnv == InitEnv /\ [][NextEnv]_vars

\* the Filesystem as the fixture gives it: every field optional
InitFs ==
    /\ fixturePath \in FixturePaths
    /\ disk \in [in : BOOLEAN, out : BOOLEAN]
    /\ fs \in [cwd : OptionOf(Paths), base : OptionOf(Paths),
               sandbox : OptionOf(BOOLEAN)]
    /\ fsGiven = fs
    /\ fsLoaded = fs
    /\ relCwd = Ok(<<>>)
    /\ fsPc = "parsed"
    /\ EnvIdle /\ ParseIdle /\ RunIdle

\* TryCmd::load after the fixture is parsed
FsLoad ==
    /\ fsPc = "parsed"
    /\ fs' = LoadFs(fs, fixturePath, disk)
    /\ fsLoaded' = fs'
    /\ fsPc' = "loaded"
    /\ UNCHANGED <<fixturePath, disk, fsGiven, relCwd>>
    /\ UNCHANGED <<envVars, parseVars, runVars>>

\* a caller asks the loaded case for rel_cwd()
FsRelCwd ==
    /\ fsPc = "loaded"
    /\ relCwd' = RelCwd(fs)
    /\ fsPc' = "rel"
    /\ UNCHANGED <<fixturePath, disk, fs, fsGiven, fsLoaded>>
    /\ UNCHANGED <<envVars, parseVars, runVars>>

NextFs == FsLoad \/ FsRelCwd

SpecFs == InitFs /\ [][NextFs]_vars

\* a fixture file next to which <stem>.in exists and <stem>.out does not
InitParse ==
    /\ file \in Files
    /\ loaded = Err(<<"not loaded">>)
    /\ parsePc = "start"
    /\ fixturePath = [dir |-> <<RootDir, "d">>, stem |-> "case"]
    /\ disk = [in |-> TRUE, out |-> FALSE]
    /\ fs = FilesystemDefault
    /\ fsGiven = fs
    /\ fsLoaded = fs
    /\ relCwd = Ok(<<>>)
    /\ fsPc = "parsed"
    /\ EnvIdle /\ RunIdle

\* TryCmd::load(path)
TryCmdLoad ==
    /\ parsePc = "start"
    /\ loaded' = Load(file, fixturePath, disk)
    /\ parsePc' = "done"
    /\ UNCHANGED <<file, envVars, fsVars, runVars>>

NextParse == TryCmdLoad

SpecParse == InitParse /\ [][NextParse]_vars

(***************************************************************************)
(* Run::to_output: the calling thread, the threads of                      *)
(* wait_with_input_output, and the child process.  Bytes are counted, not  *)
(* told apart; a pipe holds at most PipeCap of them, a write to a full     *)
(* pipe and a read of an empty pipe with an open write end both block.     *)
(***************************************************************************)
\* the Runs to_output is called on
Bins == {None, Some(BinPath(ProgPath)), Some(BinName("cmd")),
         Some(BinError(<<"bin lookup failed">>))}
RunEnv == [inherit |-> Some(FALSE), add |-> [k \in {"A"} |-> "1"],
           remove |-> <<"B">>]
Runs == {[RunDefault EXCEPT !.bin = b, !.args = <<"x">>, !.env = RunEnv,
                            !.stdin = i, !.stderr_to_stdout = m,
                            !.timeout = t] :
            b \in Bins, i \in {None} \cup {Some(n) : n \in 0..MaxIn},
            m \in BOOLEAN, t \in {None, Some("limit")}}

\* at most one of the system calls fails
OsFaults == {[pipe |-> TRUE, clone |-> TRUE, spawn |-> TRUE],
             [pipe |-> FALSE, clone |-> TRUE, spawn |-> TRUE],
             [pipe |-> TRUE, clone |-> FALSE, spawn |-> TRUE],
             [pipe |-> TRUE, clone |-> TRUE, spawn |-> FALSE]}

InitRun ==
    /\ run \in Runs
    /\ binFiles \in {{}, {ProgPath}}
    /\ chi \in [out : 0..MaxOut, err : 0..MaxErr,
                reads : BOOLEAN, long : BOOLEAN]
    /\ os \in OsFaults
    /\ RunStart
    /\ EnvIdle /\ FsIdle /\ ParseIdle

\* what no step of to_output changes
RunFrame ==
    UNCHANGED <<run, binFiles, chi, os, envSelf, envOther, envOrig, parentEnv,
                envPc, fsVars, parseVars>>

\* let mut cmd = self.to_command(cwd)?
ToOutputCommand ==
    /\ pc = "start"
    /\ LET cmd == ToCommand(run, None, binFiles)
       IN  IF cmd.ok
           THEN /\ command' = cmd.val
                /\ pc' = IF run.stderr_to_stdout THEN "pipe" ELSE "spawn2"
                /\ UNCHANGED result
           ELSE /\ result' = cmd
                /\ pc' = "done"
                /\ UNCHANGED command
    /\ UNCHANGED <<made, cmdW, child, inPipe, outPipe, errPipe, writer,
                   readers, output>>
    /\ RunFrame

\* let (mut reader, writer) = os_pipe::pipe()?
MergedPipe ==
    /\ pc = "pipe"
    /\ IF os.pipe
       THEN /\ made' = [made EXCEPT !.pipes = @ + 1]
            /\ cmdW' = 1
            /\ pc' = "clone"
            /\ UNCHANGED result
       ELSE /\ result' = Err(<<"pipe">>)
            /\ pc' = "done"
            /\ UNCHANGED <<made, cmdW>>
    /\ UNCHANGED <<command, child, inPipe, outPipe, errPipe, writer, readers,
                   output>>
    /\ RunFrame

\* let writer_clone = writer.try_clone()?: on an error the function returns
\* and writer is dropped
MergedClone ==
    /\ pc = "clone"
    /\ IF os.clone
       THEN /\ cmdW' = 2
            /\ pc' = "spawn"
            /\ UNCHANGED result
       ELSE /\ cmdW' = 0
            /\ result' = Err(<<"try_clone">>)
            /\ pc' = "done"
    /\ UNCHANGED <<command, made, child, inPipe, outPipe, errPipe, writer,
                   readers, output>>
    /\ RunFrame

\* the child a successful spawn starts, its stdin pipe open at both ends
Spawned ==
    /\ child' = [st |-> "running", out |-> chi.out, err |-> chi.err,
                 eof |-> FALSE, code |-> 0]
    /\ inPipe' = [buf |-> 0, w |-> TRUE]

\* cmd.stdout(writer); cmd.stderr(writer_clone); let child = cmd.spawn()?:
\* both write ends move into cmd, the child gets copies; on an error the
\* function returns and cmd is dropped with them
MergedSpawn ==
    /\ pc = "spawn"
    /\ made' = [made EXCEPT !.spawns = @ + 1]
    /\ IF os.spawn
       THEN /\ Spawned
            /\ pc' = "drop"
            /\ UNCHANGED <<result, cmdW>>
       ELSE /\ cmdW' = 0
            /\ result' = Err(<<"spawn">>)
            /\ pc' = "done"
            /\ UNCHANGED <<child, inPipe>>
    /\ UNCHANGED <<command, outPipe, errPipe, writer, readers, output>>
    /\ RunFrame

\* to_output going on to wait with the write ends still in cmd
MergedKeepCmd ==
    /\ pc = "drop"
    /\ pc' = "wait"
    /\ UNCHANGED <<command, result, made, cmdW, child, inPipe, outPipe,
                   errPipe, writer, readers, output>>
    /\ RunFrame

\* drop(cmd): the parent's two write ends of the merged pipe are closed
MergedDropCmd ==
    /\ pc = "drop"
    /\ cmdW' = 0
    /\ pc' = "wait"
    /\ UNCHANGED <<command, result, made, child, inPipe, outPipe, errPipe,
                   writer, readers, output>>
    /\ RunFrame

\* cmd.stdin(piped).stdout(piped).stderr(piped).spawn()?
SeparatedSpawn ==
    /\ pc = "spawn2"
    /\ made' = [made EXCEPT !.spawns = @ + 1]
    /\ IF os.spawn
       THEN /\ Spawned
            /\ pc' = "wait"
            /\ UNCHANGED result
       ELSE /\ result' = Err(<<"spawn">>)
            /\ pc' = "done"
            /\ UNCHANGED <<child, inPipe>>
    /\ UNCHANGED <<command, cmdW, outPipe, errPipe, writer, readers, output>>
    /\ RunFrame

\* wait_with_input_output(child, stdin, timeout) begins: a thread writes the
\* payload to the child's stdin, which is closed at once when there is no
\* payload; a thread reads each output the child has piped to the parent
WaitStart ==
    /\ pc = "wait"
    /\ pc' = "waiting"
    /\ IF IsSome(Stdin(run))
       THEN /\ writer' = [st |-> "run", left |-> Unwrap(Stdin(run))]
            /\ UNCHANGED inPipe
       ELSE /\ inPipe' = [inPipe EXCEPT !.w = FALSE]
            /\ UNCHANGED writer
    /\ readers' = IF Merged THEN readers ELSE [out |-> "run", err |-> "run"]
    /\ UNCHANGED <<command, result, made, cmdW, child, outPipe, errPipe,
                   output>>
    /\ RunFrame

\* the stdin writer writes a byte; it blocks while the pipe is full
WriterWrite ==
    /\ writer.st = "run" /\ writer.left > 0
    /\ Alive /\ inPipe.buf < PipeCap
    /\ writer' = [writer EXCEPT !.left = @ - 1]
    /\ inPipe' = [inPipe EXCEPT !.buf = @ + 1]
    /\ UNCHANGED <<command, pc, result, made, cmdW, child, outPipe, errPipe,
                   readers, output>>
    /\ RunFrame

\* the payload is exhausted: the writer closes the child's stdin and ends
WriterClose ==
    /\ writer.st = "run" /\ writer.left = 0
    /\ writer' = [writer EXCEPT !.st = "done"]
    /\ inPipe' = [inPipe EXCEPT !.w = FALSE]
    /\ UNCHANGED <<command, pc, result, made, cmdW, child, outPipe, errPipe,
                   readers, output>>
    /\ RunFrame

\* the child is gone and its end of the pipe with it: the write fails and
\* the writer ends
WriterBrokenPipe ==
    /\ writer.st = "run" /\ writer.left > 0
    /\ ~Alive
    /\ writer' = [writer EXCEPT !.st = "done"]
    /\ inPipe' = [inPipe EXCEPT !.w = FALSE]
    /\ UNCHANGED <<command, pc, result, made, cmdW, child, outPipe, errPipe,
                   readers, output>>
    /\ RunFrame

\* the stdout reader moves a byte from the pipe to output.stdout
ReaderOutRead ==
    /\ readers.out = "run" /\ outPipe.o > 0
    /\ outPipe' = [outPipe EXCEPT !.o = @ - 1]
    /\ output' = [output EXCEPT !.stdout.o = @ + 1]
    /\ UNCHANGED <<command, pc, result, made, cmdW, child, inPipe, errPipe,
                   writer, readers>>
    /\ RunFrame

\* the pipe is empty and the child, the only holder of its write end, is
\* gone: end of stream
ReaderOutEof ==
    /\ readers.out = "run" /\ outPipe.o = 0 /\ ~Alive
    /\ readers' = [readers EXCEPT !.out = "done"]
    /\ UNCHANGED <<command, pc, result, made, cmdW, child, inPipe, outPipe,
                   errPipe, writer, output>>
    /\ RunFrame

\* the stderr reader moves a byte from the pipe to output.stderr
ReaderErrRead ==
    /\ readers.err = "run" /\ errPipe > 0
    /\ errPipe' = errPipe - 1
    /\ output' = [output EXCEPT !.stderr = @ + 1]
    /\ UNCHANGED <<command, pc, result, made, cmdW, child, inPipe, outPipe,
                   writer, readers>>
    /\ RunFrame

ReaderErrEof ==
    /\ readers.err = "run" /\ errPipe = 0 /\ ~Alive
    /\ readers' = [readers EXCEPT !.err = "done"]
    /\ UNCHANGED <<command, pc, result, made, cmdW, child, inPipe, outPipe,
                   errPipe, writer, output>>
    /\ RunFrame

\* the timeout expires with the child still running: the child is killed
\* and its descriptors are closed; what it wrote stays in the pipes
Timeout ==
    /\ pc = "waiting"
    /\ IsSome(WaitTimeout(run))
    /\ Alive
    /\ child' = [child EXCEPT !.st = "killed"]
    /\ UNCHANGED <<command, pc, result, made, cmdW, inPipe, outPipe, errPipe,
                   writer, readers, output>>
    /\ RunFrame

\* the child has ended and every thread is joined: the Output is returned.
\* Separated capture returns it (Ok(output)); merged capture goes on, its
\* asserts on the empty output.stdout and output.stderr passing
WaitDone ==
    /\ pc = "waiting"
    /\ ~Alive
    /\ writer.st # "run" /\ readers.out # "run" /\ readers.err # "run"
    /\ output' = [output EXCEPT !.status =
                      IF child.st = "killed" THEN <<"signal">>
                      ELSE <<"exit", child.code>>]
    /\ IF Merged
       THEN pc' = "read" /\ UNCHANGED result
       ELSE pc' = "done" /\ result' = Ok(output')
    /\ UNCHANGED <<command, made, cmdW, child, inPipe, outPipe, errPipe,
                   writer, readers>>
    /\ RunFrame

\* reader.read_to_end(&mut output.stdout): a byte of either stream
MergedRead ==
    /\ pc = "read"
    /\ \E s \in {"o", "e"} :
          /\ outPipe[s] > 0
          /\ outPipe' = [outPipe EXCEPT ![s] = @ - 1]
          /\ output' = [output EXCEPT !.stdout[s] = @ + 1]
    /\ UNCHANGED <<command, pc, result, made, cmdW, child, inPipe, errPipe,
                   writer, readers>>
    /\ RunFrame

\* read_to_end sees the end of the stream, which takes an empty pipe with no
\* write end open in the parent or in the child; Ok(output)
MergedEof ==
    /\ pc = "read"
    /\ outPipe.o + outPipe.e = 0
    /\ cmdW = 0 /\ ~Alive
    /\ result' = Ok(output)
    /\ pc' = "done"
    /\ UNCHANGED <<command, made, cmdW, child, inPipe, outPipe, errPipe,
                   writer, readers, output>>
    /\ RunFrame

\* the child writes a byte to its stdout; it blocks while the pipe is full
ChildWriteOut ==
    /\ Alive /\ child.out > 0
    /\ outPipe.o + outPipe.e < PipeCap
    /\ child' = [child EXCEPT !.out = @ - 1]
    /\ outPipe' = [outPipe EXCEPT !.o = @ + 1]
    /\ UNCHANGED <<command, pc, result, made, cmdW, inPipe, errPipe, writer,
                   readers, output>>
    /\ RunFrame

\* the child writes a byte to its stderr: into the merged pipe, or into the
\* stderr pipe of a separated capture
ChildWriteErr ==
    /\ Alive /\ child.err > 0
    /\ IF Merged
       THEN /\ outPipe.o + outPipe.e < PipeCap
            /\ outPipe' = [outPipe EXCEPT !.e = @ + 1]
            /\ UNCHANGED errPipe
       ELSE /\ errPipe < PipeCap
            /\ errPipe' = errPipe + 1
            /\ UNCHANGED outPipe
    /\ child' = [child EXCEPT !.err = @ - 1]
    /\ UNCHANGED <<command, pc, result, made, cmdW, inPipe, writer, readers,
                   output>>
    /\ RunFrame

\* a child that reads its stdin takes a byte
ChildRead ==
    /\ Alive /\ chi.reads /\ inPipe.buf > 0
    /\ inPipe' = [inPipe EXCEPT !.buf = @ - 1]
    /\ UNCHANGED <<command, pc, result, made, cmdW, child, outPipe, errPipe,
                   writer, readers, output>>
    /\ RunFrame

\* it sees the end of its stdin once the pipe is empty and closed
ChildEof ==
    /\ Alive /\ chi.reads /\ ~child.eof
    /\ inPipe.buf = 0 /\ ~inPipe.w
    /\ child' = [child EXCEPT !.eof = TRUE]
    /\ UNCHANGED <<command, pc, result, made, cmdW, inPipe, outPipe, errPipe,
                   writer, readers, output>>
    /\ RunFrame

\* a child that does not run on exits, with some code, when it has written
\* all its output and, if it reads its stdin, has read it to the end
ChildExit ==
    /\ Alive /\ ~chi.long
    /\ child.out = 0 /\ child.err = 0
    /\ chi.reads => child.eof
    /\ \E code \in {0, 1} : child' = [child EXCEPT !.st = "exited", !.code = code]
    /\ UNCHANGED <<command, pc, result, made, cmdW, inPipe, outPipe, errPipe,
                   writer, readers, output>>
    /\ RunFrame

NextRun ==
    \/ ToOutputCommand
    \/ MergedPipe
    \/ MergedClone
    \/ MergedSpawn
    \/ MergedDropCmd
    \/ SeparatedSpawn
    \/ WaitStart
    \/ WriterWrite
    \/ WriterClose
    \/ WriterBrokenPipe
    \/ ReaderOutRead
    \/ ReaderOutEof
    \/ ReaderErrRead
    \/ ReaderErrEof
    \/ Timeout
    \/ WaitDone
    \/ MergedRead
    \/ MergedEof
    \/ ChildWriteOut
    \/ ChildWriteErr
    \/ ChildRead
    \/ ChildEof
    \/ ChildExit

SpecRun == InitRun /\ [][NextRun]_vars

\* every thread, the child and the timer get to run
SpecRunFair == SpecRun /\ WF_vars(NextRun)


(***************************************************************************)
(* The claims.                                                             *)
(***************************************************************************)

(***************************************************************************)
(* C1: after a.update(b), every key of a.add keeps the value it had in a,  *)
(* also when b.add has the key with another value, and a key only in       *)
(* b.add is added with b's value.                                          *)
(***************************************************************************)
C1_CaseKeysKept ==
    envPc.updated =>
        /\ \A k \in DOMAIN envOrig.add :
              k \in DOMAIN envSelf.add /\ envSelf.add[k] = envOrig.add[k]
        /\ \A k \in DOMAIN envOther.add \ DOMAIN envOrig.add :
              k \in DOMAIN envSelf.add /\ envSelf.add[k] = envOther.add[k]

(***************************************************************************)
(* C2: with stderr_to_stdout set, to_output on a child that writes to both *)
(* streams, ends by itself once its input and output are done, and is fed  *)
(* a stdin payload larger than the pipe capacity always returns: while it  *)
(* has not returned some thread or the child can take a step; and the      *)
(* stdout buffer it returns holds every byte the child wrote to either     *)
(* stream.                                                                 *)
(***************************************************************************)
C2_MergedCaptureReturns ==
    ( /\ Merged
      /\ child.st # "none"
      /\ ~chi.long /\ chi.out > 0 /\ chi.err > 0
      /\ IsSome(run.stdin) /\ Unwrap(run.stdin) > PipeCap )
    => /\ pc # "done" => ENABLED NextRun
       /\ pc = "done" =>
             /\ result.ok
             /\ result.val.stdout = [o |-> chi.out - child.out,
                                     e |-> chi.err - child.err]

(***************************************************************************)
(* C3: in merged capture, once the pipe is created, the parent holds no    *)
(* write end of the merged pipe when it starts to read the pipe or has     *)
(* returned, whether the spawn succeeded, the spawn failed or the timeout  *)
(* fired.                                                                  *)
(***************************************************************************)
C3_NoParentWriteEnd ==
    (Merged /\ made.pipes > 0 /\ pc \in {"read", "done"}) => cmdW = 0

\* the timeout fired on a spawned child and the parent starts to read
C3_Witness ==
    /\ Merged /\ made.pipes > 0 /\ pc = "read"
    /\ child.st = "killed" /\ cmdW = 0
    /\ outPipe.o + outPipe.e > 0

\* the threads of wait_with_input_output have all ended
C4Joined ==
    writer.st # "run" /\ readers.out # "run" /\ readers.err # "run"

\* to_output returned an Output of a killed child, classified Interrupted
C4Interrupted ==
    /\ pc = "done"
    /\ child.st = "killed"
    /\ C4Joined
    /\ IF result.ok THEN Classify(result.val.status) = Interrupted ELSE FALSE

(***************************************************************************)
(* C4: when a timeout is set and the child runs on, then in either capture *)
(* strategy to_output returns: the child is killed, the stdin writer and   *)
(* the readers have ended by then, and the outcome is Interrupted.         *)
(***************************************************************************)
C4_TimeoutInterrupts ==
    (IsSome(run.timeout) /\ chi.long /\ Alive) ~> C4Interrupted

\* a merged capture whose writer was cut off by the kill has returned
C4_Witness ==
    /\ C4Interrupted
    /\ IsSome(run.timeout) /\ chi.long /\ Merged
    /\ writer.st = "done" /\ writer.left > 0

\* the Err to_command gives for a bin that is no existing path, <<>> for one
\* that is
C5Expected ==
    IF run.bin = None THEN <<"No bin specified">>
    ELSE IF Unwrap(run.bin)[1] = "Name"
         THEN <<"Unknown bin.name = {}", Unwrap(run.bin)[2]>>
    ELSE IF Unwrap(run.bin)[1] = "Error" THEN Unwrap(run.bin)[2]
    ELSE IF Unwrap(run.bin)[2] \notin binFiles
         THEN <<"Bin doesn't exist: {}", Unwrap(run.bin)[2]>>
    ELSE <<>>

(***************************************************************************)
(* C5: for a bin that is a Bin::Name, a Bin::Error, unset, or a Bin::Path  *)
(* that is not on disk, to_output returns the matching error at its first  *)
(* step with no pipe created and no spawn attempted; a pipe or a spawn is  *)
(* seen only for a Bin::Path that exists, and that path is the program.    *)
(***************************************************************************)
C5_BinCheckedFirst ==
    /\ (pc # "start" /\ C5Expected # <<>>) =>
          /\ pc = "done"
          /\ ~result.ok /\ result.val = C5Expected
          /\ made = [pipes |-> 0, spawns |-> 0]
          /\ child.st = "none"
    /\ (made.pipes > 0 \/ made.spawns > 0 \/ child.st # "none") =>
          /\ C5Expected = <<>>
          /\ command.program = Unwrap(run.bin)[2]

\* a Bin::Name that names a file on disk was refused
C5_Witness ==
    /\ pc = "done"
    /\ run.bin = Some(BinName("cmd")) /\ binFiles = {ProgPath}
    /\ ~result.ok
    /\ made = [pipes |-> 0, spawns |-> 0]

(***************************************************************************)
(* C6: the child's environment after Env::apply is the parent's when       *)
(* inherit is unset or true and empty when it is false, without the names  *)
(* in remove, and with every (name, value) of add set, also for a name     *)
(* that is in remove.                                                      *)
(***************************************************************************)
C6_ApplyOrder ==
    envPc.applied =>
        LET childEnv == ChildEnv(command, parentEnv)
            base  == IF envSelf.inherit \in {None, Some(TRUE)}
                     THEN parentEnv ELSE EmptyMap
        IN  /\ \A k \in DOMAIN envSelf.add :
                  k \in DOMAIN childEnv /\ childEnv[k] = envSelf.add[k]
            /\ \A k \in EnvKeys \ DOMAIN envSelf.add :
                  IF k \in DOMAIN base /\ k \notin Range(envSelf.remove)
                  THEN k \in DOMAIN childEnv /\ childEnv[k] = base[k]
                  ELSE k \notin DOMAIN childEnv
            /\ DOMAIN childEnv \subseteq EnvKeys

\* an addition whose name is also removed has been applied on top of an
\* inherited value
C6_Witness ==
    /\ envPc.applied
    /\ \E k \in DOMAIN envSelf.add :
          /\ k \in Range(envSelf.remove)
          /\ k \in DOMAIN parentEnv
          /\ parentEnv[k] # envSelf.add[k]
          /\ ChildEnv(command, parentEnv)[k] = envSelf.add[k]

(***************************************************************************)
(* C7: rel_cwd returns cwd relative to base when both are set and cwd is   *)
(* base or under base, an error naming both paths when both are set and    *)
(* cwd is not under base, and the empty path without error when either is  *)
(* unset; the Filesystem is the same after the call.                       *)
(***************************************************************************)
C7_RelCwd ==
    fsPc = "rel" =>
        /\ fs = fsLoaded
        /\ IF IsSome(fs.cwd) /\ IsSome(fs.base)
           THEN LET cwd  == Unwrap(fs.cwd)
                    base == Unwrap(fs.base)
                    under == /\ Len(base) <= Len(cwd)
                             /\ SubSeq(cwd, 1, Len(base)) = base
                IN  IF under
                    THEN relCwd.ok /\ base \o relCwd.val = cwd
                    ELSE /\ ~relCwd.ok
                         /\ relCwd.val.cwd = cwd
                         /\ relCwd.val.base = base
           ELSE relCwd = Ok(<<>>)

\* base /d/case.in and cwd /d/case.in/sub give sub
C7_Witness ==
    /\ fsPc = "rel"
    /\ fs.base = Some(<<RootDir, "d", "case.in">>)
    /\ fs.cwd = Some(<<RootDir, "d", "case.in", "sub">>)
    /\ relCwd = Ok(<<"sub">>)

\* cwd is base or a path under base
C11Under(cwd, base) ==
    /\ Len(base) <= Len(cwd)
    /\ \A i \in 1..Len(base) : cwd[i] = base[i]

(***************************************************************************)
(* C11 as claimed: in every Filesystem load returns with both cwd and base *)
(* set, cwd is base or a descendant of base.                               *)
(***************************************************************************)
C11_CwdUnderBase ==
    (fsPc # "parsed" /\ IsSome(fs.cwd) /\ IsSome(fs.base))
        => C11Under(Unwrap(fs.cwd), Unwrap(fs.base))

(***************************************************************************)
(* C11: in a Filesystem load returns with both cwd and base set, cwd is    *)
(* base itself when the fixture gave no cwd, or gave a cwd but no base     *)
(* with no sibling .in on disk; load checks nothing in the other cases,    *)
(* and rel_cwd on the loaded Filesystem succeeds exactly when cwd is base  *)
(* or a descendant of base.                                                *)
(***************************************************************************)
C11_CwdUnderBaseOrRelCwdFails ==
    (fsPc # "parsed" /\ IsSome(fs.cwd) /\ IsSome(fs.base)) =>
        /\ (fsGiven.cwd = None \/ (fsGiven.base = None /\ ~disk.in))
              => fs.cwd = fs.base
        /\ fsPc = "rel"
              => (relCwd.ok <=> C11Under(Unwrap(fs.cwd), Unwrap(fs.base)))

\* an explicit cwd with no base and no sibling .in: base is the joined cwd
C11_Witness ==
    /\ fsPc = "rel"
    /\ fixturePath.dir = <<RootDir, "d">>
    /\ fsGiven.cwd = Some(<<"sub">>) /\ fsGiven.base = None /\ ~disk.in
    /\ fs.cwd = Some(<<RootDir, "d", "sub">>) /\ fs.base = fs.cwd
    /\ relCwd = Ok(<<>>)

\* C12: the cwd after the first step, an explicit cwd put after the
\* fixture's directory unless it is absolute
C12Joined ==
    IF fsGiven.cwd = None THEN None
    ELSE LET c == Unwrap(fsGiven.cwd)
         IN  IF c # <<>> /\ Head(c) = RootDir THEN Some(c)
             ELSE Some(fixturePath.dir \o c)

(***************************************************************************)
(* C12: load resolves the filesystem fields in order: an explicit cwd is   *)
(* joined onto the fixture's directory; an unset base becomes the sibling  *)
(* .in path when it exists, else the cwd when one was given, else stays    *)
(* unset; a cwd still unset becomes base; an unset sandbox becomes whether *)
(* the sibling .out exists; an explicit base and sandbox are kept.         *)
(***************************************************************************)
C12_LoadOrder ==
    fsPc # "parsed" =>
        /\ IsSome(fsGiven.base) => fs.base = fsGiven.base
        /\ (fsGiven.base = None /\ disk.in)
              => fs.base = Some(fixturePath.dir \o <<"case.in">>)
        /\ (fsGiven.base = None /\ ~disk.in) => fs.base = C12Joined
        /\ IsSome(fsGiven.cwd) => fs.cwd = C12Joined
        /\ fsGiven.cwd = None => fs.cwd = fs.base
        /\ IsSome(fsGiven.sandbox) => fs.sandbox = fsGiven.sandbox
        /\ fsGiven.sandbox = None => fs.sandbox = Some(disk.out)

\* an explicit cwd beside an existing .in and .out: base is the .in path,
\* cwd the joined path, sandbox on
C12_Witness ==
    /\ fsPc = "loaded"
    /\ fixturePath.dir = <<RootDir, "d">>
    /\ fsGiven = [cwd |-> Some(<<"sub">>), base |-> None, sandbox |-> None]
    /\ disk = [in |-> TRUE, out |-> TRUE]
    /\ fs = [cwd |-> Some(<<RootDir, "d", "sub">>),
             base |-> Some(<<RootDir, "d", "case.in">>),
             sandbox |-> Some(TRUE)]

(***************************************************************************)
(* What the claims about parse_trycmd read off the fixture text.           *)
(***************************************************************************)
IsTrycmd == file.ext = Some("trycmd") /\ file.raw.ok
IsToml == file.ext = Some("toml") /\ file.raw.ok

\* the words of the "$ " and "> " lines, when the text starts with "$ "
TextCommand == CommandLines(file.raw.val)

HasEq(w) == \E i \in DOMAIN w : w[i] = "="
FirstEq(w) == CHOOSE i \in DOMAIN w : w[i] = "=" /\ \A j \in 1..(i - 1) : w[j] # "="
NameOf(w) == SubSeq(w, 1, FirstEq(w) - 1)
ValueOf(w) == SubSeq(w, FirstEq(w) + 1, Len(w))

\* the index of the first word without '=', 0 when every word has one
BinIndex(ws) ==
    IF \A i \in DOMAIN ws : HasEq(ws[i]) THEN 0
    ELSE CHOOSE i \in DOMAIN ws : ~HasEq(ws[i]) /\ \A j \in 1..(i - 1) : HasEq(ws[j])

\* the line after the command lines starts with "? "
HasStatusLine(lines) ==
    /\ lines # <<>>
    /\ Len(lines[1]) >= 2 /\ lines[1][1] = "?" /\ lines[1][2] = SP

RECURSIVE Strip(_)
Strip(w) ==
    IF w # <<>> /\ w[1] \in {SP, NL} THEN Strip(Tail(w))
    ELSE IF w # <<>> /\ w[Len(w)] \in {SP, NL} THEN Strip(SubSeq(w, 1, Len(w) - 1))
    ELSE w

\* the word of the status line
StatusWord(lines) == Strip(SubSeq(lines[1], 3, Len(lines[1])))

\* the status phase does not fail: no "? " line, or one FromStr accepts
StatusPhaseOk(lines) == HasStatusLine(lines) => FromStr(StatusWord(lines)).ok

C8SetsNeither ==
    \/ IsToml /\ file.raw.val.stderr_to_stdout = None /\ file.raw.val.status = None
    \/ IsTrycmd /\ TextCommand.ok /\ ~HasStatusLine(TextCommand.val.lines)

\* (merge-stderr flag, status) a Run takes effect with
C8Effective(r) == <<r.stderr_to_stdout, Status(r)>>

(***************************************************************************)
(* C8 as stated: a fixture that sets neither the merge-stderr flag nor a   *)
(* status gets the same effective flag and the same effective status in    *)
(* the compact syntax as the empty structured fixture gets.                *)
(***************************************************************************)
C8_SameDefaults ==
    (parsePc = "done" /\ loaded.ok /\ C8SetsNeither) =>
        C8Effective(loaded.val.run)
            = C8Effective(FromOneShot(ParseToml(
                  [bin |-> None, args |-> None,
                   stderr_to_stdout |-> None, status |-> None])).run)

(***************************************************************************)
(* C8, amended: a fixture that sets neither the merge-stderr flag nor a    *)
(* status gets the effective status Success in both syntaxes; its          *)
(* effective merge-stderr flag is false in the structured syntax and true  *)
(* in the compact syntax.                                                  *)
(***************************************************************************)
C8_DefaultsPerSyntax ==
    (parsePc = "done" /\ loaded.ok /\ C8SetsNeither) =>
        /\ Status(loaded.val.run) = Success
        /\ loaded.val.run.stderr_to_stdout = IsTrycmd

\* a compact fixture without a "? " line has been loaded
C8_Witness ==
    /\ parsePc = "done" /\ loaded.ok /\ C8SetsNeither /\ IsTrycmd
    /\ loaded.val.run.stderr_to_stdout
    /\ Status(loaded.val.run) = Success

(***************************************************************************)
(* C9 as stated: every NAME=VALUE word before the first word without '='   *)
(* is the addition NAME -> VALUE of the parsed Env, the first word without *)
(* '=' is the bin as Bin::Name, the later words are the args in order, and *)
(* without such a word parsing fails with "No bin specified".  (Read, as   *)
(* the amended claim is, of a text whose "? " line, if any, has parsed.)   *)
(***************************************************************************)
C9_EveryAssignmentKept ==
    (parsePc = "done" /\ IsTrycmd /\ TextCommand.ok) =>
        LET ws == TextCommand.val.cmdline
            b  == BinIndex(ws)
        IN  IF ~StatusPhaseOk(TextCommand.val.lines) THEN ~loaded.ok
            ELSE IF b = 0 THEN loaded = Err(<<"No bin specified">>)
            ELSE /\ loaded.ok
                 /\ loaded.val.run.bin = Some(BinName(ws[b]))
                 /\ loaded.val.run.args = SubSeq(ws, b + 1, Len(ws))
                 /\ \A i \in 1..(b - 1) :
                       /\ NameOf(ws[i]) \in DOMAIN loaded.val.run.env.add
                       /\ loaded.val.run.env.add[NameOf(ws[i])] = ValueOf(ws[i])
                 /\ DOMAIN loaded.val.run.env.add = {NameOf(ws[i]) : i \in 1..(b - 1)}

(***************************************************************************)
(* C9, amended: the NAME=VALUE words before the first word without '='     *)
(* are the additions of the parsed Env, a NAME given more than once        *)
(* keeping the VALUE of its last word; the first word without '=' is the   *)
(* bin as Bin::Name; the later words are the args in order, also those     *)
(* with '='; without a word without '=' parsing fails with "No bin         *)
(* specified".                                                             *)
(***************************************************************************)
C9_LastAssignmentKept ==
    (parsePc = "done" /\ IsTrycmd /\ TextCommand.ok) =>
        LET ws == TextCommand.val.cmdline
            b  == BinIndex(ws)
            Last(n) == CHOOSE i \in 1..(b - 1) :
                          /\ NameOf(ws[i]) = n
                          /\ \A j \in (i + 1)..(b - 1) : NameOf(ws[j]) # n
        IN  IF ~StatusPhaseOk(TextCommand.val.lines) THEN ~loaded.ok
            ELSE IF b = 0 THEN loaded = Err(<<"No bin specified">>)
            ELSE /\ loaded.ok
                 /\ loaded.val.run.bin = Some(BinName(ws[b]))
                 /\ loaded.val.run.args = SubSeq(ws, b + 1, Len(ws))
                 /\ DOMAIN loaded.val.run.env.add = {NameOf(ws[i]) : i \in 1..(b - 1)}
                 /\ \A n \in DOMAIN loaded.val.run.env.add :
                       loaded.val.run.env.add[n] = ValueOf(ws[Last(n)])

\* A=1 and A=2 precede the bin and a word with '=' follows it
C9_Witness ==
    /\ parsePc = "done" /\ IsTrycmd /\ loaded.ok
    /\ TextCommand.val.cmdline = <<WordA1, WordA2, WordCmd, WordXY>>
    /\ loaded.val.run.env.add = [n \in {<<"A">>} |-> <<"2">>]
    /\ loaded.val.run.bin = Some(BinName(WordCmd))
    /\ loaded.val.run.args = <<WordXY>>

\* an optional sign and then digits only, at least one
C10IsInteger(w) ==
    LET digits == IF w # <<>> /\ w[1] \in {"+", "-"} THEN Tail(w) ELSE w
    IN  digits # <<>> /\ \A i \in DOMAIN digits : IsDigit(digits[i])

RECURSIVE C10DropZeros(_)
C10DropZeros(d) == IF Len(d) > 1 /\ d[1] = "0" THEN C10DropZeros(Tail(d)) ELSE d

RECURSIVE C10LexLeq(_, _)
\* digit strings of equal length, compared as numbers
C10LexLeq(a, b) ==
    IF a = <<>> THEN TRUE
    ELSE IF DigitValue(a[1]) < DigitValue(b[1]) THEN TRUE
    ELSE IF DigitValue(a[1]) > DigitValue(b[1]) THEN FALSE
    ELSE C10LexLeq(Tail(a), Tail(b))

\* the integer w is one an i32 holds: -2147483648 .. 2147483647
C10FitsI32(w) ==
    LET neg == w[1] = "-"
        d   == C10DropZeros(IF w[1] \in {"+", "-"} THEN Tail(w) ELSE w)
        top == IF neg THEN <<"2", "1", "4", "7", "4", "8", "3", "6", "4", "8">>
               ELSE <<"2", "1", "4", "7", "4", "8", "3", "6", "4", "7">>
    IN  Len(d) < 10 \/ (Len(d) = 10 /\ C10LexLeq(d, top))

\* the value of an integer that fits, summed digit by power of ten
C10Value(w) ==
    LET neg == w[1] = "-"
        d   == IF w[1] \in {"+", "-"} THEN Tail(w) ELSE w
        Pow[k \in 0..Len(d)] == IF k = 0 THEN 1 ELSE 10 * Pow[k - 1]
        Sum[k \in 0..Len(d)] ==
            IF k = 0 THEN 0
            ELSE Sum[k - 1] + (IF neg THEN -1 ELSE 1)
                                 * DigitValue(d[Len(d) + 1 - k]) * Pow[k - 1]
    IN  Sum[Len(d)]

C10Named ==
    [w \in {<<"s", "u", "c", "c", "e", "s", "s">>, <<"f", "a", "i", "l", "e", "d">>,
            <<"i", "n", "t", "e", "r", "r", "u", "p", "t", "e", "d">>,
            <<"s", "k", "i", "p", "p", "e", "d">>} |->
        IF w[1] = "f" THEN Failed
        ELSE IF w[1] = "i" THEN Interrupted
        ELSE IF w[2] = "u" THEN Success
        ELSE Skipped]

(***************************************************************************)
(* C10 as stated: the "? " line after the command lines sets the status:   *)
(* success, failed, interrupted, skipped give their variants, a base-10    *)
(* integer gives a Code, any other word fails the parse; without the line  *)
(* the status is Success.                                                  *)
(***************************************************************************)
C10_AnyIntegerIsCode ==
    (parsePc = "done" /\ IsTrycmd /\ TextCommand.ok
        /\ BinIndex(TextCommand.val.cmdline) # 0) =>
        LET lines == TextCommand.val.lines
            w == StatusWord(lines)
        IN  IF ~HasStatusLine(lines)
            THEN loaded.ok /\ loaded.val.run.status = Some(Success)
            ELSE IF w \in DOMAIN C10Named
                 THEN loaded.ok /\ loaded.val.run.status = Some(C10Named[w])
            ELSE IF C10IsInteger(w)
                 THEN /\ loaded.ok
                      /\ Unwrap(loaded.val.run.status)[1] = "Code"
            ELSE ~loaded.ok

(***************************************************************************)
(* C10, amended: as stated, with "a base-10 integer" read as an integer    *)
(* an i32 holds (-2147483648 to 2147483647, with an optional sign), which  *)
(* gives Code(n); an integer outside that range fails the parse like any   *)
(* other word.                                                             *)
(***************************************************************************)
C10_I32IsCode ==
    (parsePc = "done" /\ IsTrycmd /\ TextCommand.ok
        /\ BinIndex(TextCommand.val.cmdline) # 0) =>
        LET lines == TextCommand.val.lines
            w == StatusWord(lines)
        IN  IF ~HasStatusLine(lines)
            THEN loaded.ok /\ loaded.val.run.status = Some(Success)
            ELSE IF w \in DOMAIN C10Named
                 THEN loaded.ok /\ loaded.val.run.status = Some(C10Named[w])
            ELSE IF C10IsInteger(w) /\ C10FitsI32(w)
                 THEN loaded.ok /\ loaded.val.run.status = Some(Code(C10Value(w)))
            ELSE ~loaded.ok

\* "? -1" after the command line has given Code(-1)
C10_Witness ==
    /\ parsePc = "done" /\ IsTrycmd /\ loaded.ok
    /\ HasStatusLine(TextCommand.val.lines)
    /\ StatusWord(TextCommand.val.lines) = <<"-", "1">>
    /\ loaded.val.run.status = Some(Code(-1))

\* C13: how the phases divide the lines of a fixture text
C13Starts(line, ch) == Len(line) >= 2 /\ line[1] = ch /\ line[2] = SP
C13Body(line) == Trim(SubSeq(line, 3, Len(line)))

\* the last line of the command: the "$ " line or the last of the "> "
\* lines that directly follow it
C13CommandEnd(lines) ==
    CHOOSE k \in 1..Len(lines) :
        /\ \A i \in 2..k : C13Starts(lines[i], ">")
        /\ k = Len(lines) \/ ~C13Starts(lines[k + 1], ">")

\* the tokens of the lines up to line k, in order
C13Tokens(lines, k) ==
    LET Tok[i \in 0..k] ==
            IF i = 0 THEN <<>> ELSE Tok[i - 1] \o Shlex(C13Body(lines[i]))
    IN  Tok[k]

\* the lines from line k on, as they are
C13Stdout(lines, k) ==
    LET Out[i \in (k - 1)..Len(lines)] ==
            IF i = k - 1 THEN <<>> ELSE Out[i - 1] \o lines[i]
    IN  Out[Len(lines)]

(***************************************************************************)
(* C13: parse_trycmd takes the lines in phases.  A first line that does    *)
(* not start with "$ " fails with an error quoting the line.  The "> "     *)
(* lines directly after the first line add their tokens to the command; a  *)
(* "? " line directly after those sets the status; every line after that,  *)
(* also one starting with "> " or "? ", goes to the expected stdout as it  *)
(* is.  A successful parse has stderr_to_stdout = true and an expected     *)
(* stdout that is set, empty when no line is left.  A text with no line    *)
(* has no command and fails.                                               *)
(***************************************************************************)
C13_PhaseOrder ==
    (parsePc = "done" /\ IsTrycmd) =>
        LET lines == LinesWithTerminator(file.raw.val)
            end == C13CommandEnd(lines)
            hasStatus == end < Len(lines) /\ C13Starts(lines[end + 1], "?")
            status == FromStr(C13Body(lines[end + 1]))
            outFrom == end + 1 + (IF hasStatus THEN 1 ELSE 0)
            tokens == C13Tokens(lines, end)
            bin == BinIndex(tokens)
        IN  IF lines = <<>> THEN ~loaded.ok
            ELSE IF ~C13Starts(lines[1], "$")
            THEN /\ ~loaded.ok
                 /\ loaded.val = <<"Expected $ line, got {}", lines[1]>>
            ELSE IF hasStatus /\ ~status.ok THEN ~loaded.ok
            ELSE IF bin = 0 THEN ~loaded.ok
            ELSE /\ loaded.ok
                 /\ loaded.val.run.stderr_to_stdout = TRUE
                 /\ loaded.val.run.expected_stdout
                        = Some(C13Stdout(lines, outFrom))
                 /\ loaded.val.run.status =
                        Some(IF hasStatus THEN status.val ELSE Success)
                 /\ loaded.val.run.bin = Some(BinName(tokens[bin]))
                 /\ loaded.val.run.args = SubSeq(tokens, bin + 1, Len(tokens))

\* "$ cmd", "? failed", "> cmd": the late "> " line is expected stdout
C13_Witness ==
    /\ parsePc = "done"
    /\ file.ext = Some("trycmd")
    /\ file.raw = Ok(DOLLAR \o WordCmd \o <<NL>>
                       \o QUERY \o <<"f", "a", "i", "l", "e", "d">> \o <<NL>>
                       \o CONT \o WordCmd)
    /\ loaded.ok
    /\ loaded.val.run.status = Some(Failed)
    /\ loaded.val.run.args = <<>>
    /\ loaded.val.run.stderr_to_stdout = TRUE
    /\ loaded.val.run.expected_stdout = Some(CONT \o WordCmd)

=============================================================================
